---- MODULE Spec2Model ----
(***************************************************************************)
(* `now billing`: the credit-card subcommand of now-cli                    *)
(* (src/providers/sh/commands/billing.js).                                 *)
(*                                                                         *)
(* One invocation of the command is one behaviour.  Every `await` of main  *)
(* and run (an API call, an interactive prompt) is one action; the code    *)
(* that runs between two awaits is part of the action that resumes it.     *)
(* Everything the command does that can be observed from outside (API      *)
(* calls and their outcome, prompts and their answers, lines written to    *)
(* stdout and stderr, exit requests, the release of the API client) is     *)
(* appended to `trace` in program order.                                   *)
(***************************************************************************)
EXTENDS Integers, Sequences, FiniteSets, TLC

VARIABLES
  pc,          \* where main / run stands: at which await, or how it ended
  help_flag,   \* argv.help
  subcommand,  \* argv._[0] after the slice of main ("" when absent)
  args,        \* argv._.slice(1) of run
  server,      \* the account's CardCollection on the server
  cards,       \* `cards` of the handler: the collection it fetched
  cardId,      \* `cardId` of the handler
  exitCode,    \* the code exit() was first called with
  trace        \* what the command did so far, in program order

vars == <<pc, help_flag, subcommand, args, server, cards, cardId, exitCode, trace>>

(***************************************************************************)
(* Bounds of the model.                                                    *)
(***************************************************************************)
NumCards == 2   \* cards the account can hold
MaxArgs == 2    \* positional arguments after the subcommand

(***************************************************************************)
(* Values.                                                                 *)
(***************************************************************************)
Undefined == "undefined"      \* the JavaScript value undefined
Null == "null"                \* defaultCardId of an account without default
NoExit == -1                  \* exit() has not been called

CardId(i) == "card_" \o ToString(i)
CardIds == {CardId(i) : i \in 1..NumCards}
\* What a user can type as a card id: the id of a card, an id no card has,
\* or the empty string.
ArgValues == CardIds \cup {"card_x", ""}
ArgLists == UNION {[1..n -> ArgValues] : n \in 0..MaxArgs}
Subcommands == {"", "ls", "list", "set-default", "rm", "remove", "add", "foo"}

\* A CardCollection {cards, defaultCardId}: a card is represented by its id,
\* the default is one of the cards or null.
Collections ==
  {c \in [cards : SUBSET CardIds, defaultCardId : CardIds \cup {Null}] :
     c.defaultCardId \in c.cards \cup {Null}}
NoCollection == [cards |-> {}, defaultCardId |-> Undefined]   \* `let cards`

E(ev, arg, res) == [ev |-> ev, arg |-> arg, res |-> res]

(***************************************************************************)
(* Helpers of the handlers.                                                *)
(***************************************************************************)
\* Faulty variant: only the empty string is rejected (cardId !== '').
TruthyOnlyEmptyString(v) == v # ""

\* if (cardId): undefined and the empty string are falsy.
Truthy(v) == v # Undefined /\ v # ""

\* Faulty variant: the limit off by one (args.length > 2).
TooManyArgsOffByOne(a) == Len(a) > 2

\* args.length > 1
TooManyArgs(a) == Len(a) > 1

\* let cardId = args[0]
FirstArg(a) == IF Len(a) = 0 THEN Undefined ELSE a[1]

\* Faulty variant: the test is dropped, the prompt is shown whatever the
\* argument.
NeedsSelectionAlways(id) == TRUE

\* if (cardId === undefined): the selection prompt is needed
NeedsSelection(id) == id = Undefined

\* Faulty variant: the emptiness test never succeeds (length < 0).
NoCardsNeverTrue(c) == Cardinality(c.cards) < 0

\* cards.cards.length === 0
NoCards(c) == Cardinality(c.cards) = 0

\* cards.cards.find(card => card.id === cardId)
FindCard(c, id) == IF id \in c.cards THEN id ELSE Undefined

\* Faulty variant: the deleted card is not filtered out.
RemainingCardsUnfiltered(c, id) == c.cards

\* cards.cards.filter(card => card.id !== cardId)
RemainingCards(c, id) == c.cards \ {id}

\* if (cardId === cards.defaultCardId)
RemovedWasDefault(c, id) == id = c.defaultCardId

\* Faulty variant: the answer to the confirmation is not looked at.
DeclinedIgnored(confirmation) == FALSE

\* if (!confirmation) ... break
Declined(confirmation) == ~confirmation

\* Faulty variant: no default case, an unknown subcommand lists the cards.
HandlerOfNoDefault(sub) ==
  CASE sub = "set-default" -> "set-default"
    [] sub \in {"rm", "remove"} -> "remove"
    [] sub = "add" -> "add"
    [] OTHER -> "list"

\* The case label the switch on `subcommand` selects.
HandlerOf(sub) ==
  CASE sub \in {"ls", "list"} -> "list"
    [] sub = "set-default" -> "set-default"
    [] sub \in {"rm", "remove"} -> "remove"
    [] sub = "add" -> "add"
    [] OTHER -> "default"

\* exit(code): asks for the process to end with `code`; the first request
\* decides the status.
Exit(current, code) == IF current = NoExit THEN code ELSE current
ExitEvent(code) == E("exit", ToString(code), "")

\* creditCards.close(), the last statement of run
Close(t) == Append(t, E("close", "", ""))

\* The catch block of main around `await run(...)`.
MainCatch(t, userError) ==
  t \o << E("catch", "main", ""),
          E("stderr", IF userError THEN "error" ELSE "unknown_error", ""),
          ExitEvent(1) >>
\* Faulty variant: the catch block of main without its exit(1).
MainCatchNoExit(current) == current

\* exit(1) at the end of the catch block of main.
MainCatchExit(current) == Exit(current, 1)

\* The catch block around the first `creditCards.ls()` of a handler.
FetchCatch(t) == t \o << E("catch", "call_site", ""), E("stderr", "error", "") >>


(***************************************************************************)
(* The billing account on the server, as the API client sees it.           *)
(***************************************************************************)
\* What a resolved ls() is recorded as in the trace.
LsResult(c) == IF c.cards = {} THEN "empty" ELSE "nonempty"

\* The account after a successful setDefault(id).
AfterSetDefault(s, id) ==
  IF id \in s.cards THEN [s EXCEPT !.defaultCardId = id] ELSE s

\* The accounts a successful rm(id) can leave: when the default card goes,
\* the server picks the new default (one of the remaining cards, or none).
AfterRm(s, id) ==
  IF id \notin s.cards
    THEN {s}
    ELSE {[cards |-> s.cards \ {id}, defaultCardId |-> d] :
            d \in IF s.defaultCardId = id
                    THEN (s.cards \ {id}) \cup {Null}
                    ELSE {s.defaultCardId}}

(***************************************************************************)
(* Initial state: the command line is parsed, nothing has run.             *)
(***************************************************************************)
Init ==
  /\ pc = "main"
  /\ help_flag \in BOOLEAN
  /\ subcommand \in Subcommands
  /\ args \in ArgLists
  /\ subcommand = "" => args = << >>
  /\ server \in Collections
  /\ cards = NoCollection
  /\ cardId = Undefined
  /\ exitCode = NoExit
  /\ trace = << >>

(***************************************************************************)
(* main: help, or run inside try/catch.                                    *)
(***************************************************************************)
Main ==
  /\ pc = "main"
  /\ IF help_flag \/ subcommand = ""
       THEN /\ trace' = trace \o << E("help", "", ""), ExitEvent(0) >>
            /\ exitCode' = Exit(exitCode, 0)
            /\ pc' = "exiting"
       ELSE /\ pc' = "run"
            /\ UNCHANGED <<trace, exitCode>>
  /\ UNCHANGED <<help_flag, subcommand, args, server, cards, cardId>>

(***************************************************************************)
(* run: the switch on the subcommand, up to the first await of the         *)
(* selected case.                                                          *)
(***************************************************************************)
Run ==
  /\ pc = "run"
  /\ LET h == HandlerOf(subcommand)
         t == Append(trace, E("handler", h, ""))
     IN  CASE h = "list" ->
                /\ pc' = "list:fetch"
                /\ trace' = t
                /\ UNCHANGED exitCode
           [] h \in {"set-default", "remove"} ->
                IF TooManyArgs(args)
                  THEN /\ trace' = t \o << E("stderr", "Invalid number of arguments", ""),
                                           ExitEvent(1) >>
                       /\ exitCode' = Exit(exitCode, 1)
                       /\ pc' = "exiting"
                  ELSE /\ pc' = h \o ":fetch"
                       /\ trace' = t
                       /\ UNCHANGED exitCode
           [] h = "add" ->
                /\ pc' = "add:flow"
                /\ trace' = t
                /\ UNCHANGED exitCode
           [] OTHER ->
                /\ trace' = Close(t \o << E("stderr", "Please specify a valid subcommand", ""),
                                          E("help", "", ""),
                                          ExitEvent(1) >>)
                /\ exitCode' = Exit(exitCode, 1)
                /\ pc' = "returned"
  /\ UNCHANGED <<help_flag, subcommand, args, server, cards, cardId>>

(***************************************************************************)
(* case 'ls' / 'list'                                                      *)
(***************************************************************************)
ListFetch ==
  /\ pc = "list:fetch"
  /\ \/ /\ cards' = server
        /\ trace' = Close(trace \o << E("ls", "", LsResult(server)),
                                      E("stdout", "cards found", "") >>)
     \/ /\ trace' = FetchCatch(Append(trace, E("ls", "", "fail")))
        /\ UNCHANGED cards
  /\ pc' = "returned"
  /\ UNCHANGED <<help_flag, subcommand, args, server, cardId, exitCode>>

(***************************************************************************)
(* Target resolution, the code 'set-default' and 'rm' share line for line. *)
(***************************************************************************)
\* if (cardId) { confirmation prompt } else { 'No changes made' }
AfterCandidate(h, t, id) ==
  IF Truthy(id)
    THEN [pc |-> h \o ":confirm", trace |-> Append(t, E("promptBool", "shown", ""))]
    ELSE [pc |-> "returned",
          trace |-> Close(Append(t, E("stdout", "No changes made", "")))]

\* The first creditCards.ls() of the handler and what follows it up to the
\* next await.
Fetch(h) ==
  /\ pc = h \o ":fetch"
  /\ \/ /\ trace' = FetchCatch(Append(trace, E("ls", "", "fail")))
        /\ pc' = "returned"
        /\ UNCHANGED <<cards, cardId, exitCode>>
     \/ /\ cards' = server
        /\ LET t == Append(trace, E("ls", "", LsResult(server)))
               id == FirstArg(args)
           IN  IF NoCards(server)
                 THEN /\ trace' = t \o << E("stderr", "You have no credit cards to choose from", ""),
                                          ExitEvent(0) >>
                      /\ exitCode' = Exit(exitCode, 0)
                      /\ pc' = "exiting"
                      /\ UNCHANGED cardId
                 ELSE /\ cardId' = id
                      /\ UNCHANGED exitCode
                      /\ IF NeedsSelection(id)
                           THEN /\ trace' = Append(t, E("listInput", "shown", ""))
                                /\ pc' = h \o ":select"
                           ELSE /\ trace' = AfterCandidate(h, t, id).trace
                                /\ pc' = AfterCandidate(h, t, id).pc
  /\ UNCHANGED <<help_flag, subcommand, args, server>>

\* What listInput resolves with: the value of one of the choices built from
\* the cards (buildInquirerChoices: value = card.id), or no value when the
\* user takes the abort entry.
ListInputAnswers(c) == c.cards \cup {Undefined}

\* What promptBool resolves with.
PromptBoolAnswers == BOOLEAN

\* listInput resolves.
Select(h) ==
  /\ pc = h \o ":select"
  /\ \E answer \in ListInputAnswers(cards) :
       LET t == Append(trace, E("answer", "listInput", answer))
       IN  /\ cardId' = answer
           /\ trace' = AfterCandidate(h, t, answer).trace
           /\ pc' = AfterCandidate(h, t, answer).pc
  /\ UNCHANGED <<help_flag, subcommand, args, server, cards, exitCode>>

(***************************************************************************)
(* case 'set-default'                                                      *)
(***************************************************************************)
SetDefaultFetch ==
  /\ pc = "set-default:fetch"
  /\ Fetch("set-default")

SetDefaultSelect ==
  /\ pc = "set-default:select"
  /\ Select("set-default")

SetDefaultConfirm ==
  /\ pc = "set-default:confirm"
  /\ \E confirmation \in PromptBoolAnswers :
       LET t == Append(trace, E("answer", "promptBool",
                                IF confirmation THEN "yes" ELSE "no"))
       IN  IF Declined(confirmation)
             \* `consoel` is not defined: a ReferenceError leaves run
             THEN /\ trace' = MainCatch(t, FALSE)
                  /\ exitCode' = MainCatchExit(exitCode)
                  /\ pc' = "returned"
             ELSE /\ trace' = t
                  /\ pc' = "set-default:mutate"
                  /\ UNCHANGED exitCode
  /\ UNCHANGED <<help_flag, subcommand, args, server, cards, cardId>>

SetDefaultCall ==
  /\ pc = "set-default:mutate"
  /\ \/ \E userError \in BOOLEAN :
          /\ trace' = MainCatch(Append(trace, E("setDefault", cardId, "fail")), userError)
          /\ exitCode' = MainCatchExit(exitCode)
          /\ UNCHANGED server
     \/ /\ server' = AfterSetDefault(server, cardId)
        /\ LET t == Append(trace, E("setDefault", cardId, "ok"))
           IN  IF FindCard(cards, cardId) = Undefined
                 \* card.brand of undefined: a TypeError leaves run
                 THEN /\ trace' = MainCatch(t, FALSE)
                      /\ exitCode' = MainCatchExit(exitCode)
                 ELSE /\ trace' = Close(Append(t, E("stdout", "is now the default", "")))
                      /\ UNCHANGED exitCode
  /\ pc' = "returned"
  /\ UNCHANGED <<help_flag, subcommand, args, cards, cardId>>

(***************************************************************************)
(* case 'rm' / 'remove'                                                    *)
(***************************************************************************)
RemoveFetch ==
  /\ pc = "remove:fetch"
  /\ Fetch("remove")

RemoveSelect ==
  /\ pc = "remove:select"
  /\ Select("remove")

RemoveConfirm ==
  /\ pc = "remove:confirm"
  /\ \E confirmation \in PromptBoolAnswers :
       LET t == Append(trace, E("answer", "promptBool",
                                IF confirmation THEN "yes" ELSE "no"))
       IN  IF Declined(confirmation)
             THEN /\ trace' = Close(Append(t, E("stdout", "Aborted", "")))
                  /\ pc' = "returned"
             ELSE /\ trace' = t
                  /\ pc' = "remove:mutate"
  /\ UNCHANGED <<help_flag, subcommand, args, server, cards, cardId, exitCode>>

\* What is printed after the deletion, or the re-fetch that has to come first.
AfterDeletion(c, id) ==
  IF RemovedWasDefault(c, id)
    THEN IF RemainingCards(c, id) = {}
           THEN "was deleted, Warning! You have no default card"
           ELSE "refetch"
    ELSE "was deleted"

RemoveCall ==
  /\ pc = "remove:mutate"
  /\ \/ \E userError \in BOOLEAN :
          /\ trace' = MainCatch(Append(trace, E("rm", cardId, "fail")), userError)
          /\ exitCode' = MainCatchExit(exitCode)
          /\ pc' = "returned"
          /\ UNCHANGED server
     \/ /\ server' \in AfterRm(server, cardId)
        /\ LET t == Append(trace, E("rm", cardId, "ok"))
           IN  IF FindCard(cards, cardId) = Undefined
                 \* deletedCard.brand of undefined: a TypeError leaves run
                 THEN /\ trace' = MainCatch(t, FALSE)
                      /\ exitCode' = MainCatchExit(exitCode)
                      /\ pc' = "returned"
                 ELSE /\ UNCHANGED exitCode
                      /\ IF AfterDeletion(cards, cardId) = "refetch"
                           THEN /\ trace' = t
                                /\ pc' = "remove:refetch"
                           ELSE /\ trace' = Close(Append(t,
                                       E("stdout", AfterDeletion(cards, cardId), "")))
                                /\ pc' = "returned"
  /\ UNCHANGED <<help_flag, subcommand, args, cards, cardId>>

\* const cards = await creditCards.ls() of the inner block: the handler's
\* own `cards` is shadowed, not assigned.
RemoveRefetch ==
  /\ pc = "remove:refetch"
  /\ \/ \E userError \in BOOLEAN :
          /\ trace' = MainCatch(Append(trace, E("ls", "", "fail")), userError)
          /\ exitCode' = MainCatchExit(exitCode)
     \/ LET t == Append(trace, E("ls", "", LsResult(server)))
        IN  IF FindCard(server, server.defaultCardId) = Undefined
              \* newDefaultCard.brand of undefined: a TypeError leaves run
              THEN /\ trace' = MainCatch(t, FALSE)
                   /\ exitCode' = MainCatchExit(exitCode)
              ELSE /\ trace' = Close(Append(t,
                          E("stdout", "was deleted, in now default", "")))
                   /\ UNCHANGED exitCode
  /\ pc' = "returned"
  /\ UNCHANGED <<help_flag, subcommand, args, server, cards, cardId>>

(***************************************************************************)
(* case 'add': the add-card flow of ./billing/add.                         *)
(***************************************************************************)
AddFlow ==
  /\ pc = "add:flow"
  /\ \/ /\ trace' = Close(Append(trace, E("addBilling", "", "ok")))
        /\ UNCHANGED exitCode
     \/ \E userError \in BOOLEAN :
          /\ trace' = MainCatch(Append(trace, E("addBilling", "", "fail")), userError)
          /\ exitCode' = MainCatchExit(exitCode)
  /\ pc' = "returned"
  /\ UNCHANGED <<help_flag, subcommand, args, server, cards, cardId>>

(***************************************************************************)
(* The process ends: with the requested code, or 0 when exit() was never   *)
(* called.                                                                 *)
(***************************************************************************)
ProcessEnd ==
  /\ pc \in {"returned", "exiting"}
  /\ pc' = "terminated"
  /\ exitCode' = Exit(exitCode, 0)
  /\ UNCHANGED <<help_flag, subcommand, args, server, cards, cardId, trace>>

Next ==
  \/ Main
  \/ Run
  \/ ListFetch
  \/ SetDefaultFetch
  \/ SetDefaultSelect
  \/ SetDefaultConfirm
  \/ SetDefaultCall
  \/ RemoveFetch
  \/ RemoveSelect
  \/ RemoveConfirm
  \/ RemoveCall
  \/ RemoveRefetch
  \/ AddFlow
  \/ ProcessEnd

Spec == Init /\ [][Next]_vars

(***************************************************************************)
(* Reading the trace.                                                      *)
(***************************************************************************)
Ended == pc \in {"returned", "exiting", "terminated"}
Idx == 1..Len(trace)
Count(ev) == Cardinality({i \in Idx : trace[i].ev = ev})
Handler == IF \E i \in Idx : trace[i].ev = "handler"
             THEN (CHOOSE e \in {trace[i] : i \in Idx} : e.ev = "handler").arg
             ELSE "none"
IsApiCall(e) == e.ev \in {"ls", "setDefault", "rm", "addBilling"}
IsMutation(e) == e.ev \in {"setDefault", "rm"}
IsPrompt(e) == e.ev \in {"listInput", "promptBool"}
Printed(stream, text) == \E i \in Idx : trace[i].ev = stream /\ trace[i].arg = text
ReachedMain == \E i \in Idx : trace[i] = E("catch", "main", "")

TypeOK ==
  /\ help_flag \in BOOLEAN
  /\ subcommand \in Subcommands
  /\ args \in ArgLists
  /\ server \in Collections
  /\ cards \in Collections \cup {NoCollection}
  /\ cardId \in ArgValues \cup {Undefined}
  /\ exitCode \in {NoExit, 0, 1}

(***************************************************************************)
(* More ways to read the trace.                                            *)
(***************************************************************************)
RanHandler(h) == \E i \in Idx : trace[i] = E("handler", h, "")
ResolvingHandler == RanHandler("set-default") \/ RanHandler("remove")
NoApiCall == \A i \in Idx : ~IsApiCall(trace[i])
NoMutation == \A i \in Idx : ~IsMutation(trace[i])
NoPrompt == \A i \in Idx : ~IsPrompt(trace[i])
\* The events after position i.
After(i) == SubSeq(trace, i + 1, Len(trace))
\* The outcome of the first list fetch ("none" before it).
FirstLs ==
  IF \E i \in Idx : trace[i].ev = "ls"
    THEN trace[CHOOSE i \in Idx : trace[i].ev = "ls" /\ \A j \in 1..(i - 1) : trace[j].ev # "ls"].res
    ELSE "none"
\* List fetches made after the deletion.
LsAfterRm ==
  Cardinality({i \in Idx : trace[i].ev = "ls" /\ \E j \in 1..(i - 1) : trace[j].ev = "rm"})
NoDefaultWarning == "was deleted, Warning! You have no default card"

(***************************************************************************)
(* C1.  Every invocation of run calls the API client's close() exactly     *)
(* once before the command ends, on every exit path.                       *)
(* Fails: the early returns (failed list fetch, 2+ arguments, empty        *)
(* collection) and every error thrown out of run skip the close() at the   *)
(* end of run.                                                             *)
(***************************************************************************)
C1_CloseExactlyOnce ==
  (Ended /\ Handler # "none") => Count("close") = 1

(***************************************************************************)
(* C2.  For set-default and remove, when a candidate id exists and the     *)
(* confirmation is answered negatively: no mutating API call is made, a    *)
(* non-error message is printed, and the command ends without an error     *)
(* report and without exit code 1.                                         *)
(* Fails for set-default: the branch calls the undefined `consoel`.        *)
(***************************************************************************)
ConfirmationDeclined == \E i \in Idx : trace[i] = E("answer", "promptBool", "no")

C2_DeclineIsBenign ==
  (ResolvingHandler /\ ConfirmationDeclined) =>
    /\ NoMutation
    /\ Printed("stdout", "Aborted")
    /\ Count("stderr") = 0
    /\ ~ReachedMain
    /\ exitCode # 1

(***************************************************************************)
(* C3.  set-default and remove invoked with two or more positional         *)
(* arguments always exit with code 1 and make no API call at all (no list  *)
(* fetch, no setDefault, no rm), and no prompt is shown.                   *)
(***************************************************************************)
C3_TooManyArgsRejected ==
  (ResolvingHandler /\ Len(args) >= 2) =>
    /\ NoApiCall
    /\ NoPrompt
    /\ After(1) = << E("stderr", "Invalid number of arguments", ""), E("exit", "1", "") >>
    /\ exitCode = 1
    /\ pc \in {"exiting", "terminated"}

C3_Witness ==
  /\ RanHandler("remove")
  /\ Len(args) = 2
  /\ pc = "terminated"
  /\ exitCode = 1

(***************************************************************************)
(* C4.  set-default and remove invoked with at most one positional         *)
(* argument against an account without cards show neither the selection    *)
(* prompt nor the confirmation prompt, make no mutating API call and exit  *)
(* with code 0, whether or not a card id was supplied.                     *)
(***************************************************************************)
C4_EmptyCollectionExits0 ==
  (ResolvingHandler /\ Len(args) <= 1 /\ FirstLs = "empty") =>
    /\ NoPrompt
    /\ NoMutation
    /\ Count("ls") = 1
    /\ exitCode = 0
    /\ trace[Len(trace)] = E("exit", "0", "")
    /\ pc \in {"exiting", "terminated"}

C4_Witness ==
  /\ RanHandler("set-default")
  /\ Len(args) = 1
  /\ args[1] \in CardIds
  /\ FirstLs = "empty"
  /\ pc = "terminated"
  /\ exitCode = 0

(***************************************************************************)
(* C5.  After a confirmed, successful removal of a card of the fetched     *)
(* collection: if it was the default and other cards remain, exactly one   *)
(* more list fetch follows the deletion and no 'no default card' warning   *)
(* is printed; if it was the default and the last card, the warning is     *)
(* printed and no list fetch follows; if it was not the default, neither   *)
(* a list fetch nor the warning follows.                                   *)
(***************************************************************************)
RemovedFetchedCard ==
  /\ cardId \in cards.cards
  /\ \E i \in Idx : trace[i] = E("rm", cardId, "ok")

C5_AfterRemoval ==
  RemovedFetchedCard =>
    IF cardId = cards.defaultCardId
      THEN IF cards.cards # {cardId}
             THEN /\ ~Printed("stdout", NoDefaultWarning)
                  /\ IF Ended THEN LsAfterRm = 1
                              ELSE LsAfterRm = 0 /\ pc = "remove:refetch"
             ELSE /\ Printed("stdout", NoDefaultWarning)
                  /\ LsAfterRm = 0
                  /\ Ended
      ELSE /\ ~Printed("stdout", NoDefaultWarning)
           /\ LsAfterRm = 0
           /\ Ended

C5_Witness ==
  /\ RemovedFetchedCard
  /\ cardId = cards.defaultCardId
  /\ cards.cards # {cardId}
  /\ LsAfterRm = 1
  /\ Printed("stdout", "was deleted, in now default")
  /\ pc = "terminated"

(***************************************************************************)
(* C6.  For set-default and remove invoked without a card id against a     *)
(* non-empty collection, when the user aborts the selection prompt the     *)
(* command prints "No changes made", shows no confirmation prompt, makes   *)
(* no mutating API call and does nothing further but release the client.   *)
(***************************************************************************)
SelectionAborted == \E i \in Idx : trace[i] = E("answer", "listInput", Undefined)

C6_AbortedSelection ==
  (ResolvingHandler /\ SelectionAborted) =>
    /\ Len(args) = 0
    /\ FirstLs = "nonempty"
    /\ Count("promptBool") = 0
    /\ NoMutation
    /\ \A i \in Idx :
         trace[i] = E("answer", "listInput", Undefined) =>
           After(i) = << E("stdout", "No changes made", ""), E("close", "", "") >>
    /\ exitCode \in {NoExit, 0}
    /\ pc \in {"returned", "terminated"}

C6_Witness ==
  /\ RanHandler("set-default")
  /\ SelectionAborted
  /\ Cardinality(cards.cards) = NumCards
  /\ Printed("stdout", "No changes made")
  /\ pc = "terminated"

(***************************************************************************)
(* C7.  The dispatcher invokes exactly one handler per invocation: a       *)
(* subcommand in {ls, list, set-default, rm, remove, add} runs only its    *)
(* own handler, and any other non-empty subcommand prints an error, shows  *)
(* the help text, makes no API call and ends with a non-zero exit status.  *)
(***************************************************************************)
Dispatched == pc \notin {"main", "run"} /\ ~help_flag /\ subcommand # ""

\* The events only the named handler produces.
OwnEvents(h) ==
  CASE h = "list" -> {"ls"}
    [] h = "set-default" -> {"ls", "listInput", "promptBool", "setDefault"}
    [] h = "remove" -> {"ls", "listInput", "promptBool", "rm"}
    [] h = "add" -> {"addBilling"}
    [] OTHER -> {}

C7_ExactlyOneHandler ==
  /\ Count("handler") <= 1
  /\ Dispatched =>
       /\ Count("handler") = 1
       /\ subcommand \in {"ls", "list"} => Handler = "list"
       /\ subcommand = "set-default" => Handler = "set-default"
       /\ subcommand \in {"rm", "remove"} => Handler = "remove"
       /\ subcommand = "add" => Handler = "add"
       /\ \A i \in Idx :
            (IsApiCall(trace[i]) \/ IsPrompt(trace[i])) => trace[i].ev \in OwnEvents(Handler)
       /\ subcommand \notin {"ls", "list", "set-default", "rm", "remove", "add"} =>
            /\ Handler = "default"
            /\ Printed("stderr", "Please specify a valid subcommand")
            /\ Count("help") = 1
            /\ NoApiCall
            /\ NoPrompt
            /\ exitCode = 1

C7_Witness ==
  /\ subcommand = "foo"
  /\ Handler = "default"
  /\ Count("help") = 1
  /\ pc = "terminated"
  /\ exitCode = 1

(***************************************************************************)
(* C8 as stated.  Every error raised by an API client call of set-default  *)
(* or remove (the first list fetch, setDefault, rm, the list fetch after   *)
(* the deletion) is caught at its call site: the message is printed, the   *)
(* handler ends with no further prompt and no further API call, and the    *)
(* failure never reaches the top-level handler that reports an error and   *)
(* exits with code 1.                                                      *)
(* Fails: only the first list fetch is inside a try/catch.                 *)
(***************************************************************************)
ApiCallFailed(i) == IsApiCall(trace[i]) /\ trace[i].res = "fail"
FirstFetchFailed(i) ==
  trace[i] = E("ls", "", "fail") /\ \A j \in 1..(i - 1) : ~IsApiCall(trace[j])

C8_CaughtAtCallSite ==
  ResolvingHandler =>
    \A i \in Idx :
      ApiCallFailed(i) =>
        /\ After(i) = << E("catch", "call_site", ""), E("stderr", "error", "") >>
        /\ ~ReachedMain
        /\ exitCode # 1

(***************************************************************************)
(* C8 amended.  An error raised by the first list fetch of set-default or  *)
(* remove is caught at its call site: the message is printed and the       *)
(* handler returns, without reaching the top-level handler and without     *)
(* exit code 1.  An error raised by setDefault, by rm or by the list fetch *)
(* after the deletion is not caught in the handler: it reaches the catch   *)
(* block of main, which prints the error and exits with code 1.  In both   *)
(* cases no prompt and no API call follows the failed call.                *)
(***************************************************************************)
C8_Amended ==
  ResolvingHandler =>
    \A i \in Idx :
      ApiCallFailed(i) =>
        /\ \A j \in (i + 1)..Len(trace) : ~IsApiCall(trace[j]) /\ ~IsPrompt(trace[j])
        /\ pc \in {"returned", "terminated"}
        /\ IF FirstFetchFailed(i)
             THEN /\ After(i) = << E("catch", "call_site", ""), E("stderr", "error", "") >>
                  /\ ~ReachedMain
                  /\ exitCode # 1
             ELSE /\ trace[i].ev \in {"setDefault", "rm", "ls"}
                  /\ After(i) \in {<< E("catch", "main", ""), E("stderr", m, ""), E("exit", "1", "") >> :
                                     m \in {"error", "unknown_error"}}
                  /\ exitCode = 1

C8_Witness ==
  /\ RanHandler("remove")
  /\ LsAfterRm = 1
  /\ trace[Len(trace) - 3] = E("ls", "", "fail")
  /\ ReachedMain
  /\ pc = "terminated"
  /\ exitCode = 1

(***************************************************************************)
(* C9.  In every run of set-default or remove, a mutating API call is      *)
(* issued only after, in this order, a successful list fetch of a          *)
(* non-empty collection, the resolution of a candidate id (argument or     *)
(* selection) and a positive answer to the confirmation prompt; at most    *)
(* one mutating call is issued per invocation, setDefault for set-default  *)
(* and rm for remove, and none by the list handler.                        *)
(***************************************************************************)
\* The candidate id was resolved between positions j and k of the trace.
ResolvedBetween(j, k, id) ==
  \/ /\ Len(args) = 1
     /\ args[1] = id
     /\ k = j + 1
  \/ /\ Len(args) = 0
     /\ k = j + 3
     /\ trace[j + 1] = E("listInput", "shown", "")
     /\ trace[j + 2] = E("answer", "listInput", id)

C9_MutationOrder ==
  /\ Cardinality({i \in Idx : IsMutation(trace[i])}) <= 1
  /\ RanHandler("list") => NoMutation
  /\ \A i \in Idx :
       IsMutation(trace[i]) =>
         /\ trace[i].ev = "setDefault" <=> RanHandler("set-default")
         /\ trace[i].ev = "rm" <=> RanHandler("remove")
         /\ i >= 4
         /\ trace[i - 1] = E("answer", "promptBool", "yes")
         /\ trace[i - 2] = E("promptBool", "shown", "")
         /\ \E j \in 1..(i - 3) :
              /\ trace[j] = E("ls", "", "nonempty")
              /\ ResolvedBetween(j, i - 2, trace[i].arg)

C9_Witness ==
  /\ RanHandler("set-default")
  /\ Len(args) = 0
  /\ \E i \in Idx : trace[i] = E("setDefault", cardId, "ok")
  /\ Printed("stdout", "is now the default")
  /\ pc = "terminated"

====
